---- MODULE Spec2Model ----
(***************************************************************************)
(* mongo-sync: the change-feed anonymisation pipeline (syncMode,           *)
(* bulkWriteUpdates, repeat, fullReindexMode, createUpdate,                *)
(* anonymizeCustomer, hash; the                                            *)
(* file src/unnamed/part_000) and the checkpoint store resume-token.ts.    *)
(*                                                                         *)
(* JavaScript objects are functions from string keys to values; an object  *)
(* whose key order matters (the updatedFields of a change event, walked    *)
(* with for-in) is a sequence of <<key, value>> pairs.  A string value is  *)
(* a TLA+ string, "" being the only falsy one; an e-mail address is the    *)
(* sequence of its parts around "@".                                       *)
(***************************************************************************)
EXTENDS Integers, Sequences, FiniteSets, TLC

VARIABLES
    running,        \* the node process is alive
    file,           \* resume_token.json: [exists, content]
    resumeAfter,    \* options.resumeAfter of syncMode: [set, token]
    oplog,          \* the source's change events in feed order (token k = oplog[k])
    nextEvent,      \* position of the change stream cursor in oplog
    updates,        \* let updates: Array<Update>
    flushes,        \* bulkWriteUpdates() invocations suspended at an await
    timerIdPending, \* the timeout that timerId refers to is still scheduled
    orphanTimers,   \* scheduled timeouts that timerId no longer refers to
    timerDelay,     \* the interval of the latest repeat(interval) call
    closed,         \* the cancel function returned by syncMode has run
    bulkWrites,     \* every anonymizedCollection.bulkWrite issued, with its outcome
    lastSaved,      \* the token of the latest saveResumeToken whose write succeeded
    subscribedFrom, \* first oplog position covered since the last watch() without resumeAfter
    run,            \* how many times the process has been started again
    step,           \* the callback that ran last
    updatedFields,  \* createUpdate: its argument
    update,         \* createUpdate: its result
    pcU,            \* createUpdate: "call" before, "done" after
    customers,      \* fullReindexMode: the documents customersCollection.find() yields
    cursor,         \* fullReindexMode: how many of them the for-await loop has taken
    reindexUpdates, \* fullReindexMode: let updates = []
    reindexWrites,  \* fullReindexMode: the operations of every bulkWrite issued
    total,          \* fullReindexMode: let total = 0
    pcR,            \* fullReindexMode: where the function is
    sink,           \* the anonymised collection: its documents by _id
    written,        \* the updateOne operations the collection has applied
    pcS             \* "write" while operations are applied, "replayed" after a replay

syncVars == <<running, file, resumeAfter, oplog, nextEvent, updates, flushes,
              timerIdPending, orphanTimers, timerDelay, closed, bulkWrites,
              lastSaved, subscribedFrom, run, step>>
reindexVars == <<customers, cursor, reindexUpdates, reindexWrites, total, pcR>>
sinkVars == <<sink, written, pcS>>
fnVars == <<updatedFields, update, pcU, reindexVars, sinkVars>>
vars == <<syncVars, fnVars>>

(***************************************************************************)
(* Bounds of the model and constants of the program.                       *)
(***************************************************************************)
\* MAX_BATCH_SIZE is 1000 in the source; scaled down so that the size trigger
\* happens within MaxEvents events.
MAX_BATCH_SIZE == 2
MaxEvents == 3
MaxRestarts == 1
\* UPDATES_INTERVAL is 1000 (ms) in the source; time is counted in units of
\* half an interval, up to MaxSpent units per flush.
UPDATES_INTERVAL == 2
MaxSpent == 3
\* REINDEX_BULK_WRITE_SIZE is 100 in the source; scaled down so that full
\* batches and a remainder happen within MaxCustomers documents.
REINDEX_BULK_WRITE_SIZE == 2
MaxCustomers == 5
MaxOps == 3

Last(s) == s[Len(s)]
Range(s) == {s[i] : i \in DOMAIN s}

(***************************************************************************)
(* hash:            md5 as a big integer, rewritten in base 62 over the     *)
(* alphabet, least significant digit first, cut to 8 characters.           *)
(***************************************************************************)
alphabet == <<"a","b","c","d","e","f","g","h","i","j","k","l","m",
              "n","o","p","q","r","s","t","u","v","w","x","y","z",
              "A","B","C","D","E","F","G","H","I","J","K","L","M",
              "N","O","P","Q","R","S","T","U","V","W","X","Y","Z",
              "0","1","2","3","4","5","6","7","8","9">>

\* crypto.createHash('md5').update(input).digest('hex') read as a number.
\* The digest function is a library call; it is a fixed injective table over
\* the strings of the model (TLC integers are 32 bits wide, not 128).
MD5 ==
    [s \in {"x", "y", "jane", "123"} |->
        CASE s = "x"    -> 1234567890
          [] s = "y"    -> 987654
          [] s = "jane" -> 61
          [] s = "123"  -> 2000000011]

RECURSIVE Base62(_)
Base62(bigint) ==
    IF bigint > 0
    THEN <<alphabet[(bigint % Len(alphabet)) + 1]>> \o Base62(bigint \div Len(alphabet))
    ELSE <<>>

hash(input) ==
    LET result == Base62(MD5[input])
    IN  SubSeq(result, 1, IF Len(result) < 8 THEN Len(result) ELSE 8)

(***************************************************************************)
(* anonymizeCustomer                                                       *)
(***************************************************************************)
Has(obj, key) == key \in DOMAIN obj
Truthy(v) == v # ""
Put(obj, key, v) == [k \in DOMAIN obj \cup {key} |-> IF k = key THEN v ELSE obj[k]]

AnonymKeys == <<"line1", "line2", "postcode">>

\* the for loop over keys: a present, non-empty sub-field is replaced by its hash
anonymizeAddress(address) ==
    [k \in DOMAIN address |->
        IF k \in Range(AnonymKeys) /\ Truthy(address[k])
        THEN hash(address[k]) ELSE address[k]]

\* const [emailPart1, emailPart2] = email.split('@'); `${hash(p1)}@${p2}`
anonymizeEmail(email) == <<hash(email[1]), email[2]>>

anonymizeCustomer(customer) ==
    LET names == {k \in {"firstName", "lastName"} :
                      Has(customer, k) /\ Truthy(customer[k])}
        mail  == {k \in {"email"} : Has(customer, k)}
        addr  == {k \in {"address"} : Has(customer, k)}
    IN  [k \in names \cup mail \cup addr |->
            CASE k \in names -> hash(customer[k])
              [] k \in mail  -> anonymizeEmail(customer[k])
              [] k \in addr  -> anonymizeAddress(customer[k])]

(***************************************************************************)
(* createUpdate and convertCustomerUpdateToDotNotation                     *)
(***************************************************************************)
AddressKeys == {"line1", "line2", "postcode", "city", "state", "country"}
Dotted(nestedKey) == "address." \o nestedKey
DottedKeys == {Dotted(k) : k \in AddressKeys}
\* key.split('.')[1] for a key that starts with 'address.'
Key2(key) == CHOOSE k \in AddressKeys : Dotted(k) = key
EmptyObject == [k \in {} |-> ""]

\* stage 1 of createUpdate: one iteration of the for-in loop
RebuildStep(customer, key, value) ==
    IF key \in DottedKeys
    THEN LET address == IF Has(customer, "address") THEN customer["address"]
                        ELSE EmptyObject
         IN  Put(customer, "address", Put(address, Key2(key), value))
    ELSE Put(customer, key, value)

RECURSIVE Rebuild(_, _)
Rebuild(customer, fields) ==
    IF fields = <<>> THEN customer
    ELSE Rebuild(RebuildStep(customer, fields[1][1], fields[1][2]), Tail(fields))

\* let rewriteFullAddress: set when the bare key 'address' is met
rewriteFullAddress_never(fields) == FALSE
rewriteFullAddress(fields) == \E i \in DOMAIN fields : fields[i][1] = "address"

convertCustomerUpdateToDotNotation_asis(customer) == customer
convertCustomerUpdateToDotNotation(customer) ==
    LET nested == IF Has(customer, "address") THEN DOMAIN customer["address"] ELSE {}
        plain  == DOMAIN customer \ {"address"}
    IN  [k \in plain \cup {Dotted(n) : n \in nested} |->
            IF k \in plain THEN customer[k] ELSE customer["address"][Key2(k)]]

createUpdate(fields) ==
    LET anonym == anonymizeCustomer(Rebuild(EmptyObject, fields))
    IN  IF rewriteFullAddress(fields) THEN anonym
        ELSE convertCustomerUpdateToDotNotation(anonym)

(***************************************************************************)
(* The checkpoint store (resume-token.ts)                                  *)
(***************************************************************************)
\* a change stream resume token {_data: ...}; k is the event's feed position
Token(k) == [_data |-> k]
Null == [set |-> FALSE, token |-> Token(0)]
Some(t) == [set |-> TRUE, token |-> t]
NoFile == [exists |-> FALSE, content |-> <<>>]

JSONstringify(resumeToken) == <<"{", "_data", ":", ToString(resumeToken._data), "}">>
JSONparse(content) ==
    [_data |-> CHOOSE k \in 0..(MaxEvents + 1) : ToString(k) = content[4]]

\* readFile(...).then(JSON.parse), ENOENT caught as null
loadResumeToken(f) == IF f.exists THEN Some(JSONparse(f.content)) ELSE Null

\* writeFile(path, JSON.stringify(resumeToken)): the file after the write
\* settles; a failed write is taken to leave the file as it was (what
\* fs.writeFile leaves behind on a partial write is not in the source)
writeFile(f, resumeToken, ok) ==
    IF ok THEN [exists |-> TRUE, content |-> JSONstringify(resumeToken)] ELSE f

\* saveResumeToken ends in .catch(console.error): its promise never rejects
saveResumeTokenRejects_rethrow(ok) == ~ok
saveResumeTokenRejects(ok) == FALSE

(***************************************************************************)
(* The change events the source can produce                                *)
(***************************************************************************)
FullDocument ==
    [firstName |-> "jane", lastName |-> "x", email |-> <<"jane", "example.com">>,
     address |-> [line1 |-> "x", line2 |-> "", postcode |-> "123",
                  city |-> "y", state |-> "y", country |-> "x"],
     createdAt |-> "y"]

Event(type, id, doc, has, fields) ==
    [operationType |-> type, _id |-> id, fullDocument |-> doc,
     hasUpdatedFields |-> has, updatedFields |-> fields]

Events ==
    { Event("insert", 1, FullDocument, FALSE, <<>>),
      Event("update", 2, EmptyObject, TRUE,
            <<<<"firstName", "y">>, <<"address", [line1 |-> "y", city |-> "x"]>>>>),
      Event("update", 2, EmptyObject, TRUE, <<>>),
      Event("update", 1, EmptyObject, FALSE, <<>>),
      Event("delete", 1, EmptyObject, FALSE, <<>>) }

(***************************************************************************)
(* syncMode: the change handler's pushes                                   *)
(***************************************************************************)
\* the events for which the change handler pushes a pending update
Enqueues(change) ==
    \/ change.operationType = "insert"
    \/ change.operationType = "update" /\ change.hasUpdatedFields

\* what the handler pushes for a change whose resume token is Token(k)
Pushed(change, k) ==
    CASE change.operationType = "insert" ->
            <<[_id |-> change._id, update |-> anonymizeCustomer(change.fullDocument),
               resumeToken |-> Token(k)]>>
      [] change.operationType = "update" /\ change.hasUpdatedFields ->
            <<[_id |-> change._id, update |-> createUpdate(change.updatedFields),
               resumeToken |-> Token(k)]>>
      [] OTHER -> <<>>

\* if (updates.length >= MAX_BATCH_SIZE)
SizeTrigger_gt(queue) == Len(queue) > MAX_BATCH_SIZE
SizeTrigger(queue) == Len(queue) >= MAX_BATCH_SIZE

(***************************************************************************)
(* bulkWriteUpdates                                                        *)
(***************************************************************************)
\* const lastResumeToken = updates[updates.length - 1].resumeToken
LastResumeToken_first(queue) == queue[1].resumeToken
LastResumeToken(queue) == Last(queue).resumeToken

\* updates = [] after the snapshot
QueueAfterSnapshot_kept(queue) == queue
QueueAfterSnapshot(queue) == <<>>

\* the .catch of bulkWrite only logs: the queue is what it was
QueueAfterWriteError_requeue(queue, batch) == batch \o queue
QueueAfterWriteError(queue, batch) == queue

\* the operations are plain updates, not upserts
Operations_noUpsert(updatesToWrite) ==
    [i \in DOMAIN updatesToWrite |->
        [filter |-> updatesToWrite[i]._id, set |-> updatesToWrite[i].update,
         upsert |-> FALSE, of |-> updatesToWrite[i].resumeToken._data]]

\* updatesToWrite.map(...): `of` records the pending update an operation came from
Operations(updatesToWrite) ==
    [i \in DOMAIN updatesToWrite |->
        [filter |-> updatesToWrite[i]._id, set |-> updatesToWrite[i].update,
         upsert |-> TRUE, of |-> updatesToWrite[i].resumeToken._data]]

\* the interval without its lower bound
NextInterval_unclamped(spent) == UPDATES_INTERVAL - spent

\* the timer callback's .finally: UPDATES_INTERVAL - (end - start), not below 0
NextInterval(spent) ==
    LET interval == UPDATES_INTERVAL - spent
    IN  IF interval < 0 THEN 0 ELSE interval

\* the interval a flush's .finally passes to repeat: the timer callback's
\* self-correcting one, the change handler's fixed one
RescheduleInterval(trigger, spent) ==
    IF trigger = "timer" THEN NextInterval(spent) ELSE UPDATES_INTERVAL

\* no timeout is scheduled and timerId stays as it is
Reschedule_none(pending, orphans, interval) ==
    /\ timerIdPending' = pending
    /\ timerDelay' = timerDelay
    /\ orphanTimers' = orphans

\* timerId = repeat(...): a new timeout is scheduled and timerId refers to it;
\* a timeout timerId referred to before (`pending`) stays scheduled
Reschedule(pending, orphans, interval) ==
    /\ timerIdPending' = TRUE
    /\ timerDelay' = interval
    /\ orphanTimers' = orphans + (IF pending THEN 1 ELSE 0)

\* bulkWriteUpdates() up to its first await, called with the queue `queue`;
\* `pending` and `orphans` are the timeouts scheduled at the call
StartFlush(queue, trigger, pending, orphans) ==
    IF queue = <<>>
    THEN \* returns at once; .finally reschedules within the same turn
         /\ updates' = queue
         /\ Reschedule(pending, orphans, RescheduleInterval(trigger, 0))
         /\ UNCHANGED <<flushes, bulkWrites>>
    ELSE /\ updates' = QueueAfterSnapshot(queue)
         /\ bulkWrites' = Append(bulkWrites,
                [run |-> run, ops |-> Operations(queue), result |-> "pending",
                 afterCancel |-> closed])
         /\ flushes' = flushes \cup
                {[n |-> Len(bulkWrites) + 1, lastResumeToken |-> LastResumeToken(queue),
                  pc |-> "bulkWrite", trigger |-> trigger, spent |-> 0]}
         /\ timerIdPending' = pending
         /\ orphanTimers' = orphans
         /\ UNCHANGED timerDelay

\* the anonymised collection is not looked at
EmptySink == [i \in {} |-> EmptyObject]
NoSink ==
    /\ sink = EmptySink
    /\ written = <<>>
    /\ pcS = "idle"

\* fullReindexMode has not been called
NoReindex ==
    /\ customers = <<>>
    /\ cursor = 0
    /\ reindexUpdates = <<>>
    /\ reindexWrites = <<>>
    /\ total = 0
    /\ pcR = "idle"

(***************************************************************************)
(* syncMode: startup                                                       *)
(***************************************************************************)
\* if (resumeToken) options.resumeAfter = resumeToken
ResumeOptions_unset(resumeToken) == Null
ResumeOptions(resumeToken) == IF resumeToken.set THEN Some(resumeToken.token) ELSE Null

\* watch([], options): the first event the stream delivers
FirstEvent_current(options, log) == Len(log) + 1
FirstEvent(options, log) ==
    IF options.set THEN options.token._data + 1 ELSE Len(log) + 1

InitFiles == {NoFile, writeFile(NoFile, Token(0), TRUE)}

Init ==
    /\ running = TRUE
    /\ file \in InitFiles
    /\ resumeAfter = ResumeOptions(loadResumeToken(file))
    /\ oplog = <<>>
    /\ nextEvent = 1
    /\ updates = <<>>
    /\ flushes = {}
    /\ timerIdPending = TRUE
    /\ orphanTimers = 0
    /\ timerDelay = UPDATES_INTERVAL
    /\ closed = FALSE
    /\ bulkWrites = <<>>
    /\ lastSaved = IF file.exists THEN Some(Token(0)) ELSE Null
    /\ subscribedFrom = 1
    /\ run = 0
    /\ step = "start"
    /\ updatedFields = <<>>
    /\ update = EmptyObject
    /\ pcU = "idle"
    /\ NoReindex
    /\ NoSink

\* the process is started again: main() runs syncMode up to its return
Start ==
    /\ ~running
    /\ run < MaxRestarts
    /\ running' = TRUE
    /\ run' = run + 1
    /\ resumeAfter' = ResumeOptions(loadResumeToken(file))
    /\ nextEvent' = FirstEvent(resumeAfter', oplog)
    /\ subscribedFrom' = IF resumeAfter'.set THEN subscribedFrom ELSE Len(oplog) + 1
    /\ timerIdPending' = TRUE
    /\ timerDelay' = UPDATES_INTERVAL
    /\ closed' = FALSE
    /\ step' = "start"
    /\ UNCHANGED <<file, oplog, updates, flushes, orphanTimers, bulkWrites, lastSaved>>
    /\ UNCHANGED fnVars

(***************************************************************************)
(* syncMode: the callbacks                                                 *)
(***************************************************************************)
\* changeStream.on('change', ...): the event at the cursor is delivered; past
\* the end of the oplog the source produces a new event first.  A stream that
\* changeStream.close() was called on emits no further change.
Change(e) ==
    /\ running /\ ~closed
    /\ nextEvent <= MaxEvents
    /\ IF nextEvent <= Len(oplog)
       THEN e = oplog[nextEvent] /\ UNCHANGED oplog
       ELSE oplog' = Append(oplog, e)
    /\ nextEvent' = nextEvent + 1
    /\ LET queue == updates \o Pushed(e, nextEvent)
       IN  IF Enqueues(e) /\ SizeTrigger(queue)
           THEN \* clearTimeout(timerId); bulkWriteUpdates()
                StartFlush(queue, "size", FALSE, orphanTimers)
           ELSE /\ updates' = queue
                /\ UNCHANGED <<flushes, bulkWrites, timerIdPending, orphanTimers,
                               timerDelay>>
    /\ step' = "change"
    /\ UNCHANGED <<running, file, resumeAfter, closed, lastSaved, subscribedFrom, run>>
    /\ UNCHANGED fnVars

\* the setTimeout callback of repeat: the timeout timerId refers to fires
TimerFire ==
    /\ running
    /\ timerIdPending
    /\ StartFlush(updates, "timer", FALSE, orphanTimers)
    /\ step' = "timer"
    /\ UNCHANGED <<running, file, resumeAfter, oplog, nextEvent, closed, lastSaved,
                   subscribedFrom, run>>
    /\ UNCHANGED fnVars

\* the setTimeout callback of repeat: a timeout timerId no longer refers to fires
OrphanTimerFire ==
    /\ running
    /\ orphanTimers > 0
    /\ StartFlush(updates, "timer", timerIdPending, orphanTimers - 1)
    /\ step' = "timer"
    /\ UNCHANGED <<running, file, resumeAfter, oplog, nextEvent, closed, lastSaved,
                   subscribedFrom, run>>
    /\ UNCHANGED fnVars

\* the process ends: nothing of syncMode's closure survives
Dies ==
    /\ running' = FALSE
    /\ updates' = <<>>
    /\ flushes' = {}
    /\ timerIdPending' = FALSE
    /\ orphanTimers' = 0
    /\ UNCHANGED timerDelay

\* anonymizedCollection.bulkWrite(operations) settles; saveResumeToken is called
BulkWriteDone(fl, ok) ==
    /\ running
    /\ fl \in flushes /\ fl.pc = "bulkWrite"
    /\ bulkWrites' = [bulkWrites EXCEPT ![fl.n].result = IF ok THEN "ok" ELSE "error"]
    /\ flushes' = (flushes \ {fl}) \cup {[fl EXCEPT !.pc = "save"]}
    /\ updates' = IF ok THEN updates
                  ELSE QueueAfterWriteError(updates,
                           [i \in DOMAIN bulkWrites[fl.n].ops |->
                               [_id |-> bulkWrites[fl.n].ops[i].filter,
                                update |-> bulkWrites[fl.n].ops[i].set,
                                resumeToken |-> Token(bulkWrites[fl.n].ops[i].of)]])
    /\ step' = IF ok THEN "bulkWrite" ELSE "bulkWriteError"
    /\ UNCHANGED <<running, file, resumeAfter, oplog, nextEvent, timerIdPending,
                   orphanTimers, timerDelay, closed, lastSaved, subscribedFrom, run>>
    /\ UNCHANGED fnVars

\* the writeFile of saveResumeToken settles; bulkWriteUpdates() settles and its
\* .finally callback calls repeat
SaveDone(fl, ok) ==
    /\ running
    /\ fl \in flushes /\ fl.pc = "save"
    /\ file' = writeFile(file, fl.lastResumeToken, ok)
    /\ lastSaved' = IF ok THEN Some(fl.lastResumeToken) ELSE lastSaved
    /\ IF saveResumeTokenRejects(ok)
       THEN \* an unhandled rejection ends the process
            Dies
       ELSE /\ flushes' = flushes \ {fl}
            /\ Reschedule(timerIdPending, orphanTimers,
                          RescheduleInterval(fl.trigger, fl.spent))
            /\ UNCHANGED <<running, updates>>
    /\ step' = IF ok THEN "save" ELSE "saveError"
    /\ UNCHANGED <<resumeAfter, oplog, nextEvent, closed, bulkWrites, subscribedFrom, run>>
    /\ UNCHANGED fnVars

\* the function syncMode returns, called on SIGINT: clearTimeout(timerId) and
\* changeStream.close()
Cancel ==
    /\ running /\ ~closed
    /\ timerIdPending' = FALSE
    /\ closed' = TRUE
    /\ step' = "cancel"
    /\ UNCHANGED <<running, file, resumeAfter, oplog, nextEvent, updates, flushes,
                   orphanTimers, timerDelay, bulkWrites, lastSaved, subscribedFrom, run>>
    /\ UNCHANGED fnVars

\* main: cancel().finally(() => client.close()) ... process.exit
Exit ==
    /\ running /\ closed
    /\ Dies
    /\ step' = "exit"
    /\ UNCHANGED <<file, resumeAfter, oplog, nextEvent, closed, bulkWrites, lastSaved,
                   subscribedFrom, run>>
    /\ UNCHANGED fnVars

Next ==
    \/ \E e \in Events : Change(e)
    \/ TimerFire
    \/ OrphanTimerFire
    \/ \E fl \in flushes, ok \in BOOLEAN : BulkWriteDone(fl, ok)
    \/ \E fl \in flushes, ok \in BOOLEAN : SaveDone(fl, ok)
    \/ Cancel
    \/ Exit

\* one lifetime of the process
Spec == Init /\ [][Next]_vars

\* one lifetime in which no shutdown is requested: the event loop runs every
\* timeout that stays scheduled, and every bulk write and checkpoint save in
\* flight settles, successfully or not
NextLive ==
    \/ \E e \in Events : Change(e)
    \/ TimerFire
    \/ OrphanTimerFire
    \/ \E fl \in flushes, ok \in BOOLEAN : BulkWriteDone(fl, ok)
    \/ \E fl \in flushes, ok \in BOOLEAN : SaveDone(fl, ok)
SpecLive ==
    /\ Init
    /\ [][NextLive]_vars
    /\ WF_vars(TimerFire)
    /\ WF_vars(OrphanTimerFire)
    /\ WF_vars(\E fl \in flushes, ok \in BOOLEAN : BulkWriteDone(fl, ok))
    /\ WF_vars(\E fl \in flushes, ok \in BOOLEAN : SaveDone(fl, ok))

\* a unit of time passes while flushes are in flight (new Date().getTime()
\* moves on between a flush's start and its .finally)
Tick ==
    /\ running
    /\ flushes # {}
    /\ \A fl \in flushes : fl.spent < MaxSpent
    /\ flushes' = {[fl EXCEPT !.spent = @ + 1] : fl \in flushes}
    /\ UNCHANGED <<running, file, resumeAfter, oplog, nextEvent, updates,
                   timerIdPending, orphanTimers, timerDelay, closed, bulkWrites,
                   lastSaved, subscribedFrom, run, step>>
    /\ UNCHANGED fnVars

\* one lifetime of the process, with the time its flushes take
NextTimed == Next \/ Tick
SpecTimed == Init /\ [][NextTimed]_vars

\* the process is started again after it ended
NextRestart == Next \/ Start
SpecRestart == Init /\ [][NextRestart]_vars

(***************************************************************************)
(* createUpdate on its own: the deltas an update event can carry           *)
(***************************************************************************)
Values == {"", "x", "y"}

AddressObjects ==
    {[k \in {f} |-> x] : f \in AddressKeys, x \in Values}
    \cup {EmptyObject, [line1 |-> "x", line2 |-> "y", city |-> "x"]}

Entries ==
    {<<k, x>> : k \in {"firstName", "lastName"}, x \in Values}
    \cup {<<"email", <<"jane", "example.com">>>>, <<"createdAt", "y">>}
    \cup {<<"address", a>> : a \in AddressObjects}
    \cup {<<Dotted(f), x>> : f \in AddressKeys, x \in Values}

MaxKeys == 2

Deltas ==
    UNION {{d \in [1..n -> Entries] : \A i, j \in 1..n : i # j => d[i][1] # d[j][1]}
              : n \in 0..MaxKeys}

InitCreateUpdate ==
    /\ running = FALSE
    /\ file = NoFile
    /\ resumeAfter = Null
    /\ oplog = <<>>
    /\ nextEvent = 1
    /\ updates = <<>>
    /\ flushes = {}
    /\ timerIdPending = FALSE
    /\ orphanTimers = 0
    /\ timerDelay = UPDATES_INTERVAL
    /\ closed = FALSE
    /\ bulkWrites = <<>>
    /\ lastSaved = Null
    /\ subscribedFrom = 1
    /\ run = 0
    /\ step = "start"
    /\ updatedFields \in Deltas
    /\ update = EmptyObject
    /\ pcU = "call"
    /\ NoReindex
    /\ NoSink

CallCreateUpdate ==
    /\ pcU = "call"
    /\ update' = createUpdate(updatedFields)
    /\ pcU' = "done"
    /\ UNCHANGED <<updatedFields, syncVars, reindexVars, sinkVars>>

SpecCreateUpdate == InitCreateUpdate /\ [][CallCreateUpdate]_vars

(***************************************************************************)
(* fullReindexMode (main called with --full-reindex)                       *)
(***************************************************************************)
\* a customer document without the address: nothing but the names to hash
ShortDocument == [firstName |-> "y", lastName |-> "", createdAt |-> "x"]

\* the collections find() can yield: documents with the _ids 1..n
Collections ==
    UNION {[1..n -> {[_id |-> 0, doc |-> d] : d \in {FullDocument, ShortDocument}}]
              : n \in 0..MaxCustomers}

\* syncMode is not called, the timer and the change stream do not exist
SyncNotStarted ==
    /\ running = TRUE
    /\ resumeAfter = Null
    /\ oplog = <<>>
    /\ nextEvent = 1
    /\ updates = <<>>
    /\ flushes = {}
    /\ timerIdPending = FALSE
    /\ orphanTimers = 0
    /\ timerDelay = UPDATES_INTERVAL
    /\ closed = FALSE
    /\ bulkWrites = <<>>
    /\ lastSaved = Null
    /\ subscribedFrom = 1
    /\ run = 0
    /\ step = "start"

InitReindex ==
    /\ SyncNotStarted
    /\ file \in InitFiles
    /\ updatedFields = <<>>
    /\ update = EmptyObject
    /\ pcU = "idle"
    /\ \E c \in Collections : customers = [i \in DOMAIN c |-> [c[i] EXCEPT !._id = i]]
    /\ cursor = 0
    /\ reindexUpdates = <<>>
    /\ reindexWrites = <<>>
    /\ total = 0
    /\ pcR = "loop"
    /\ NoSink

\* updates.push({updateOne: {filter: {_id}, update: {$set: update}, upsert: true}})
ReindexOperation(customer) ==
    [filter |-> customer._id,
     set |-> convertCustomerUpdateToDotNotation(anonymizeCustomer(customer.doc)),
     upsert |-> TRUE]

\* if (updates.length >= REINDEX_BULK_WRITE_SIZE)
BatchFull_gt(batch) == Len(batch) > REINDEX_BULK_WRITE_SIZE
BatchFull(batch) == Len(batch) >= REINDEX_BULK_WRITE_SIZE

\* one iteration of the for-await loop, up to its await of bulkWrite if the
\* batch is full
ReindexCustomer ==
    /\ pcR = "loop"
    /\ cursor < Len(customers)
    /\ cursor' = cursor + 1
    /\ LET batch == Append(reindexUpdates, ReindexOperation(customers[cursor + 1]))
       IN  IF BatchFull(batch)
           THEN /\ reindexUpdates' = <<>>
                /\ reindexWrites' = Append(reindexWrites, batch)
                /\ pcR' = "bulkWrite"
           ELSE /\ reindexUpdates' = batch
                /\ UNCHANGED <<reindexWrites, pcR>>
    /\ UNCHANGED <<customers, total, syncVars, updatedFields, update, pcU, sinkVars>>

\* the cursor is exhausted: the remainder, if any, is written
ReindexRemainder ==
    /\ pcR = "loop"
    /\ cursor = Len(customers)
    /\ IF Len(reindexUpdates) > 0
       THEN /\ reindexWrites' = Append(reindexWrites, reindexUpdates)
            /\ pcR' = "bulkWriteRemainder"
       ELSE /\ pcR' = "close"
            /\ UNCHANGED reindexWrites
    /\ UNCHANGED <<customers, cursor, reindexUpdates, total, syncVars,
                   updatedFields, update, pcU, sinkVars>>

\* an awaited bulkWrite settles: total += operations.length, or the rejection
\* leaves fullReindexMode and main's catch ends the process
ReindexBulkWriteDone(ok) ==
    /\ pcR \in {"bulkWrite", "bulkWriteRemainder"}
    /\ IF ok
       THEN /\ total' = total + Len(Last(reindexWrites))
            /\ pcR' = IF pcR = "bulkWrite" THEN "loop" ELSE "close"
            /\ UNCHANGED running
       ELSE /\ pcR' = "failed"
            /\ running' = FALSE
            /\ UNCHANGED total
    /\ UNCHANGED <<customers, cursor, reindexUpdates, reindexWrites, file,
                   resumeAfter, oplog, nextEvent, updates, flushes,
                   timerIdPending, orphanTimers, timerDelay, closed, bulkWrites,
                   lastSaved, subscribedFrom, run, step, updatedFields, update, pcU,
                   sinkVars>>

\* await cursor.close(): fullReindexMode returns
ReindexClose ==
    /\ pcR = "close"
    /\ pcR' = "done"
    /\ UNCHANGED <<customers, cursor, reindexUpdates, reindexWrites, total,
                   syncVars, updatedFields, update, pcU, sinkVars>>

NextReindex ==
    \/ ReindexCustomer
    \/ ReindexRemainder
    \/ \E ok \in BOOLEAN : ReindexBulkWriteDone(ok)
    \/ ReindexClose

SpecReindex == InitReindex /\ [][NextReindex]_vars

(***************************************************************************)
(* The anonymised collection under the operations the program builds       *)
(***************************************************************************)
\* update: {$set: set} on a document: a dotted key sets one field of the
\* embedded address document and keeps its others, any other key replaces
\* the field's value
SetFields(doc, set) ==
    LET plain  == DOMAIN set \ DottedKeys
        nested == {n \in AddressKeys : Dotted(n) \in DOMAIN set}
        old    == IF Has(doc, "address") THEN doc["address"] ELSE EmptyObject
        merged == [n \in DOMAIN old \cup nested |->
                      IF n \in nested THEN set[Dotted(n)] ELSE old[n]]
        keys   == DOMAIN doc \cup plain \cup (IF nested = {} THEN {} ELSE {"address"})
    IN  [k \in keys |->
            CASE k \in plain -> set[k]
              [] k = "address" /\ nested # {} -> merged
              [] OTHER -> doc[k]]

\* updateOne {filter: {_id}, update: {$set}, upsert}: the document with that
\* _id is updated; without one, upsert inserts it and nothing happens otherwise
ApplyOp(collection, op) ==
    IF op.filter \in DOMAIN collection
    THEN Put(collection, op.filter, SetFields(collection[op.filter], op.set))
    ELSE IF op.upsert
         THEN Put(collection, op.filter, SetFields(EmptyObject, op.set))
         ELSE collection

RECURSIVE ApplyAll(_, _)
ApplyAll(collection, operations) ==
    IF operations = <<>> THEN collection
    ELSE ApplyAll(ApplyOp(collection, Head(operations)), Tail(operations))

\* update events whose deltas carry dotted address keys
DottedEvents ==
    { Event("update", 1, EmptyObject, TRUE,
            <<<<"address.line1", "y">>, <<"lastName", "y">>>>),
      Event("update", 2, EmptyObject, TRUE, <<<<"address.city", "y">>>>) }

\* the operations syncMode builds for the events and fullReindexMode builds
\* for a customer document
SinkOps ==
    UNION {Range(Operations(Pushed(e, 1))) : e \in Events \cup DottedEvents}
    \cup {ReindexOperation([_id |-> 1, doc |-> FullDocument])}

\* the collection before the program runs: empty, or holding a document
InitSinks ==
    {EmptySink,
     [i \in {1} |-> [firstName |-> hash("x"),
                     address |-> [line1 |-> hash("x"), city |-> "y"]]]}

InitReplay ==
    /\ SyncNotStarted
    /\ file = NoFile
    /\ updatedFields = <<>>
    /\ update = EmptyObject
    /\ pcU = "idle"
    /\ NoReindex
    /\ sink \in InitSinks
    /\ written = <<>>
    /\ pcS = "write"

\* the collection applies an operation of a bulk write
WriteOp(op) ==
    /\ pcS = "write"
    /\ Len(written) < MaxOps
    /\ sink' = ApplyOp(sink, op)
    /\ written' = Append(written, op)
    /\ UNCHANGED <<pcS, syncVars, updatedFields, update, pcU, reindexVars>>

\* after a restart from an older checkpoint the operations from the i-th on
\* are applied again, in order
Replay(i) ==
    /\ pcS = "write"
    /\ i \in DOMAIN written
    /\ sink' = ApplyAll(sink, SubSeq(written, i, Len(written)))
    /\ pcS' = "replayed"
    /\ UNCHANGED <<written, syncVars, updatedFields, update, pcU, reindexVars>>

NextReplay ==
    \/ \E op \in SinkOps : WriteOp(op)
    \/ \E i \in 1..MaxOps : Replay(i)

SpecReplay == InitReplay /\ [][NextReplay]_vars

(***************************************************************************)
(* Properties                                                              *)
(***************************************************************************)
\* the pending updates (by the feed position of their event) of bulk write i
BatchTokens(b) == {b.ops[j].of : j \in DOMAIN b.ops}
OpTokens(i) == BatchTokens(bulkWrites[i])
\* the events a successful bulk write has written to the sink
AppliedTokens ==
    UNION {OpTokens(i) : i \in {j \in DOMAIN bulkWrites : bulkWrites[j].result = "ok"}}
QueueTokens == {updates[i].resumeToken._data : i \in DOMAIN updates}

\* C1: at-least-once delivery: every insert/update event the stream delivered
\* whose resume token is at or before the persisted checkpoint has been
\* written to the sink by a successful bulk write.
AtLeastOnceDelivery ==
    file.exists =>
        \A k \in subscribedFrom..JSONparse(file.content)._data :
            Enqueues(oplog[k]) => k \in AppliedTokens

\* C2: exactly one flush is in flight at any time: no bulkWriteUpdates starts
\* while another one has not finished.
ExactlyOneFlushInFlight == Cardinality(flushes) <= 1

\* C3: no double publication: a pending update is part of at most one bulk
\* write, and an update still on the queue (enqueued while a flush is in
\* flight or after it) is part of no bulk write issued so far.
NoDoublePublication ==
    /\ \A i, j \in DOMAIN bulkWrites :
           \A a \in DOMAIN bulkWrites[i].ops, b \in DOMAIN bulkWrites[j].ops :
               (/\ bulkWrites[i].run = bulkWrites[j].run
                /\ bulkWrites[i].ops[a].of = bulkWrites[j].ops[b].of)
               => (i = j /\ a = b)
    /\ \A i \in DOMAIN bulkWrites :
           bulkWrites[i].run = run => OpTokens(i) \cap QueueTokens = {}

\* an update was enqueued while the second bulk write is in flight
EnqueuedDuringFlush ==
    /\ updates # <<>>
    /\ Len(bulkWrites) >= 2
    /\ \E fl \in flushes : fl.n = Len(bulkWrites) /\ fl.pc = "bulkWrite"

\* C4: the token a flush passes to saveResumeToken is the resume token of the
\* last update of that flush's snapshot, never that of an update enqueued
\* after the snapshot.
CheckpointIsLastOfSnapshot ==
    \A fl \in flushes :
        fl.pc = "save" =>
            /\ fl.lastResumeToken = Token(Last(bulkWrites[fl.n].ops).of)
            /\ fl.lastResumeToken._data \notin QueueTokens

\* saveResumeToken has been called for a batch of two while a later event
\* is already on the queue
SaveWithLaterEventQueued ==
    \E fl \in flushes :
        fl.pc = "save" /\ Len(bulkWrites[fl.n].ops) >= 2 /\ updates # <<>>

\* C5: queue bound: between event steps the queue holds fewer than
\* MAX_BATCH_SIZE updates, and an event that brings it to MAX_BATCH_SIZE
\* starts, within its own step, a flush that takes the whole queue and
\* empties it.
QueueBound ==
    /\ [](Len(updates) < MAX_BATCH_SIZE)
    /\ [][(/\ step' = "change"
           /\ nextEvent' = nextEvent + 1
           /\ Enqueues(oplog'[nextEvent])
           /\ Len(updates) + 1 >= MAX_BATCH_SIZE)
          => (/\ updates' = <<>>
              /\ Len(bulkWrites') = Len(bulkWrites) + 1
              /\ BatchTokens(Last(bulkWrites')) = QueueTokens \cup {nextEvent}
              /\ \E fl \in flushes' \ flushes :
                     fl.trigger = "size" /\ fl.n = Len(bulkWrites')
              /\ ~timerIdPending')]_vars

\* the change handler has just started a size-triggered flush
SizeTriggeredFlush ==
    /\ step = "change"
    /\ updates = <<>>
    /\ \E fl \in flushes :
           /\ fl.trigger = "size" /\ fl.pc = "bulkWrite" /\ fl.n = Len(bulkWrites)
           /\ Len(bulkWrites[fl.n].ops) = MAX_BATCH_SIZE

\* C6: shutdown: once the cancel function has run no new bulk write is
\* started, so the updates still queued at that moment are never written.
NoBulkWriteAfterShutdown ==
    \A i \in DOMAIN bulkWrites : ~bulkWrites[i].afterCancel

\* C7: a failed bulk write's updates are dropped: they are not put back on
\* the queue and are in no other bulk write; the flush goes on to save the
\* checkpoint, and when it finishes the timer is scheduled again.
FailedBatchDropped ==
    /\ [](\A i \in DOMAIN bulkWrites :
            bulkWrites[i].result = "error" =>
                /\ bulkWrites[i].run = run => OpTokens(i) \cap QueueTokens = {}
                /\ \A j \in DOMAIN bulkWrites \ {i} :
                       bulkWrites[j].run = bulkWrites[i].run
                       => OpTokens(i) \cap OpTokens(j) = {}
                /\ \A fl \in flushes : fl.n = i => fl.pc = "save")
    /\ [][\A fl \in flushes :
            (/\ bulkWrites[fl.n].result = "error"
             /\ fl \notin flushes'
             /\ step' \in {"save", "saveError"})
            => (running' /\ timerIdPending')]_vars

\* after a failed bulk write a later batch has been written
LaterBatchAfterFailedOne ==
    \E i, j \in DOMAIN bulkWrites :
        i < j /\ bulkWrites[i].result = "error" /\ bulkWrites[j].result = "ok"

Nested(f, x) == <<<<"address", [k \in {f} |-> x]>>>>

\* C10 as stated: the nested delta {address: {f: x}} and the dotted delta
\* {"address.f": x} give identical writes, neither a full-group replacement.
ReconstructionEquivalence ==
    pcU = "done" =>
        \A f \in AddressKeys, x \in Values :
            updatedFields = <<<<Dotted(f), x>>>> =>
                /\ createUpdate(Nested(f, x)) = update
                /\ ~rewriteFullAddress(Nested(f, x))
                /\ ~rewriteFullAddress(updatedFields)

\* C10 amended: both deltas give the sub-field the same anonymised value, the
\* dotted delta under the single key "address.f" without full-group
\* replacement, the nested delta under the single key address as a whole
\* object {f: value}, a full-group replacement.
ReconstructionSameValue ==
    pcU = "done" =>
        \A f \in AddressKeys, x \in Values :
            updatedFields = <<<<Dotted(f), x>>>> =>
                LET nested == createUpdate(Nested(f, x))
                IN  /\ DOMAIN update = {Dotted(f)}
                    /\ ~rewriteFullAddress(updatedFields)
                    /\ rewriteFullAddress(Nested(f, x))
                    /\ DOMAIN nested = {"address"}
                    /\ DOMAIN nested["address"] = {f}
                    /\ nested["address"][f] = update[Dotted(f)]

\* createUpdate has run on the dotted delta {"address.line1": "x"}
DottedLine1Done ==
    pcU = "done" /\ updatedFields = <<<<"address.line1", "x">>>>

\* the keys of a delta, and the value it gives under the bare key address
DeltaKeys(fields) == {fields[i][1] : i \in DOMAIN fields}
BareAddress(fields) ==
    fields[CHOOSE i \in DOMAIN fields : fields[i][1] = "address"][2]

\* C11: full replace semantics: a delta with the bare key address, alone or
\* with dotted address.* keys in any order, gives a write that carries
\* address as one whole object and no dotted key, and that object is the
\* (anonymised) value given under the bare key, unaltered by dotted entries.
FullReplaceSemantics ==
    (pcU = "done" /\ rewriteFullAddress(updatedFields)) =>
        /\ Has(update, "address")
        /\ DOMAIN update \cap DottedKeys = {}
        /\ LET rebuilt == Rebuild(EmptyObject, updatedFields)["address"]
           IN  /\ rebuilt = BareAddress(updatedFields)
               /\ update["address"] = anonymizeAddress(rebuilt)

\* C12: partial updates touch only changed fields: for a delta without the
\* bare key address every key of the write is a key of the delta, an address
\* sub-field under its dotted key, never the bare key address.
PartialUpdateKeys ==
    (pcU = "done" /\ ~rewriteFullAddress(updatedFields)) =>
        /\ DOMAIN update \subseteq DeltaKeys(updatedFields)
        /\ "address" \notin DOMAIN update

\* createUpdate has run on a delta of a dotted address key and a plain key
DottedAndPlainDone ==
    /\ pcU = "done"
    /\ DeltaKeys(updatedFields) = {"address.line1", "lastName"}
    /\ DOMAIN update = {"address.line1", "lastName"}

\* an update event without field updates: updatedFields absent or empty
NoFieldUpdates(change) ==
    /\ change.operationType = "update"
    /\ (~change.hasUpdatedFields \/ change.updatedFields = <<>>)

IssuedTokens == UNION {OpTokens(i) : i \in DOMAIN bulkWrites}

\* C13: an update event that carries no field updates is dropped: no pending
\* update on the queue and no operation of any bulk write comes from it.
EmptyUpdateDropped ==
    \A k \in QueueTokens \cup IssuedTokens : ~NoFieldUpdates(oplog[k])

\* a timer callback runs bulkWriteUpdates on an empty queue
FlushOnEmptyQueue == (TimerFire \/ OrphanTimerFire) /\ updates = <<>>

\* C16: a flush triggered with an empty queue issues no bulk write, starts no
\* checkpoint write and leaves the checkpoint file as it is, and a timer is
\* scheduled when it returns.
EmptyFlushIsNoOp ==
    [][FlushOnEmptyQueue =>
          /\ bulkWrites' = bulkWrites
          /\ flushes' = flushes
          /\ file' = file
          /\ lastSaved' = lastSaved
          /\ updates' = <<>>
          /\ timerIdPending']_vars

\* the timer has fired on an empty queue before any update was ever flushed
EmptyFlushDone ==
    /\ step = "timer"
    /\ updates = <<>>
    /\ bulkWrites = <<>>
    /\ flushes = {}
    /\ ~file.exists
    /\ timerIdPending

\* the flush fl settles and its .finally callback runs
FlushSettles(fl) == running' /\ \E ok \in BOOLEAN : SaveDone(fl, ok)

\* C17 (as stated): after every flush, timer or size triggered, the timer is
\* rescheduled with delay max(0, UPDATES_INTERVAL - time spent in the flush).
SelfCorrectingAfterEveryFlush ==
    [][\A fl \in flushes : FlushSettles(fl) =>
          /\ timerIdPending'
          /\ timerDelay' = IF fl.spent >= UPDATES_INTERVAL THEN 0
                           ELSE UPDATES_INTERVAL - fl.spent]_vars

\* C17 (amended): after a timer-triggered flush the timer is rescheduled with
\* delay max(0, UPDATES_INTERVAL - time spent in the flush); after a
\* size-triggered flush it is rescheduled with the full UPDATES_INTERVAL,
\* whatever time the flush took.
SelfCorrectingAfterTimerFlush ==
    [][\A fl \in flushes : FlushSettles(fl) =>
          /\ timerIdPending'
          /\ fl.trigger = "timer" =>
                 timerDelay' = IF fl.spent >= UPDATES_INTERVAL THEN 0
                               ELSE UPDATES_INTERVAL - fl.spent
          /\ fl.trigger = "size" => timerDelay' = UPDATES_INTERVAL]_vars

\* a timer-triggered flush that took longer than the interval has settled and
\* a size-triggered flush that took time is still in flight
SlowTimerFlushSettled ==
    /\ step \in {"save", "saveError"}
    /\ running
    /\ timerDelay = 0
    /\ \E fl \in flushes : fl.trigger = "size" /\ fl.spent > 0

\* the token the checkpoint file holds
FileToken(f) == JSONparse(f.content)._data

\* C18: the persisted checkpoint never moves backwards: each value written to
\* the file is the token of an event at or after the event of the value the
\* file held before.
CheckpointMonotonic ==
    [][(file.exists /\ file'.exists) => FileToken(file') >= FileToken(file)]_vars

\* C19: at most one flush timer is scheduled at any time, and it is the one
\* timerId refers to.
SingleTimer == orphanTimers = 0

\* C20: with no shutdown requested and every bulk write and checkpoint save
\* settling, the queue is never non-empty with neither a timer pending nor a
\* flush in flight, and every pending update on the queue is eventually part
\* of a bulk write.
EventuallyWritten ==
    /\ [](updates # <<>> => (timerIdPending \/ flushes # {}))
    /\ \A k \in 1..MaxEvents : (k \in QueueTokens) ~> (k \in IssuedTokens)

\* a timer callback has taken the queued updates into a bulk write
QueueTakenByTimer ==
    /\ step = "timer"
    /\ ~closed
    /\ updates = <<>>
    /\ \E fl \in flushes : fl.trigger = "timer" /\ fl.pc = "bulkWrite"
    /\ IssuedTokens # {}

\* the bulk writes a reindex of n documents issues: their number and sizes
CeilDiv(n, b) == (n + b - 1) \div b
BatchSize(i, n, b) == IF i * b <= n THEN b ELSE n % b

\* the operations that carry customer c
OperationsOf(c) ==
    {<<i, j>> \in (DOMAIN reindexWrites) \X (1..MaxCustomers) :
        j \in DOMAIN reindexWrites[i] /\ reindexWrites[i][j].filter = c._id}

\* C14: a full reindex over N documents with batch size B that runs to its end
\* has issued exactly ceil(N/B) bulk writes, each of size B except a last one
\* of size N mod B when that is not zero; every document is in exactly one
\* upsert operation, keyed by its identifier; no checkpoint is read or written.
FullReindexBatches ==
    /\ [](pcR = "done" =>
            LET N == Len(customers)
                B == REINDEX_BULK_WRITE_SIZE
            IN  /\ Len(reindexWrites) = CeilDiv(N, B)
                /\ \A i \in DOMAIN reindexWrites :
                       Len(reindexWrites[i]) = BatchSize(i, N, B)
                /\ \A k \in DOMAIN customers :
                       /\ Cardinality(OperationsOf(customers[k])) = 1
                       /\ \A w \in OperationsOf(customers[k]) :
                              /\ reindexWrites[w[1]][w[2]].upsert
                              /\ reindexWrites[w[1]][w[2]].set =
                                     convertCustomerUpdateToDotNotation(
                                         anonymizeCustomer(customers[k].doc)))
    /\ [](resumeAfter = Null /\ lastSaved = Null)
    /\ [][file' = file]_vars

\* a reindex of five documents has run to its end: two full batches and a
\* remainder of one
ReindexOfFiveDone ==
    /\ pcR = "done"
    /\ Len(customers) = 5
    /\ Len(reindexWrites) = 3
    /\ total = 5
    /\ file.exists

\* C15: every operation the sink receives is an upsert keyed by the record
\* identifier; applying an operation a second time leaves the sink as
\* applying it once did, and so does applying again, in order, the
\* operations from any earlier one on.
IdempotentReplay ==
    /\ [](\A i \in DOMAIN written :
             written[i].upsert /\ written[i].filter \in DOMAIN sink)
    /\ [](\A e \in Events \cup DottedEvents :
             \A op \in Range(Operations(Pushed(e, 1))) : op.filter = e._id)
    /\ [][(\E op \in SinkOps : WriteOp(op)) =>
              ApplyOp(sink', Last(written')) = sink']_vars
    /\ [][(\E i \in 1..MaxOps : Replay(i)) => sink' = sink]_vars

\* operations that replace the whole address and that set one field of it
\* have been applied to one document, and then applied again
MixedOperationsReplayed ==
    /\ pcS = "replayed"
    /\ \E i, j \in DOMAIN written :
           /\ written[i].filter = written[j].filter
           /\ Has(written[i].set, "address")
           /\ DOMAIN written[j].set \cap DottedKeys # {}

====
